---- MODULE Spec2Model ----
(***************************************************************************)
(* Model of Spectral_Analysis.py: the sonification pipeline main(fecha)    *)
(* with its helpers analisis_espectral_mejorado and normalizar_cambios.    *)
(*                                                                         *)
(* Numbers.  Percentage changes, the modulation signal and frequencies     *)
(* are exact rationals [n, d] (d > 0, lowest terms).  The FFT is the       *)
(* discrete Fourier transform in fixed point: cosines and sines are        *)
(* tabulated to two decimals (CosTab, SinTab) and each bin's real and      *)
(* imaginary part is kept to 1/200 of a sample unit.  The Gaussian window  *)
(* weights are tabulated to two decimals (GaussianWeights).  hz_values are *)
(* integers in hundredths of a hertz (the code rounds to 2 decimals).      *)
(*                                                                         *)
(* Samples are finite integers; a series with no valid sample is the empty *)
(* series.  Library calls inside the two per-element try blocks            *)
(* (lr.hz_to_midi / lr.midi_to_note, lr.tone) may raise.                   *)
(***************************************************************************)
EXTENDS Integers, Sequences, FiniteSets, TLC

VARIABLES pc, value, pct_change, espectro, picos, frecuencia_base,
          normalized, hz_values, notas, csv, audio, k, wav, archivos,
          errores, fallo

vars == << pc, value, pct_change, espectro, picos, frecuencia_base,
           normalized, hz_values, notas, csv, audio, k, wav, archivos,
           errores, fallo >>

(***************************************************************************)
(* Bounds of the model.                                                    *)
(***************************************************************************)
\* longest series of the full pipeline (Spec)
MaxLen == 4
\* longest series of the front half of the pipeline (SpecFront)
MaxLongLen == 7
\* longest series of the spectral analysis on signed samples (SpecAnalisis)
MaxSignedLen == 6
\* sample values of the input series
Values == {0, 4, 6}
\* sample values of the signed input series
SignedValues == {-4, 0, 4, 6}

(***************************************************************************)
(* Configuration (lines 18-30).                                            *)
(***************************************************************************)
SR == 44100
\* DURACION_NOTA = 0.15 s, in hundredths of a second
DURACION_NOTA_CENT == 15
RANGO_MIDI == << 21, 108 >>

(***************************************************************************)
(* Exact rationals.                                                        *)
(***************************************************************************)
Abs(x) == IF x < 0 THEN -x ELSE x

RECURSIVE GCD(_, _)
GCD(a, b) == IF b = 0 THEN a ELSE GCD(b, a % b)

Rat(n, d) ==
    LET g == GCD(Abs(n), Abs(d))
        s == IF d < 0 THEN -1 ELSE 1
    IN  [n |-> s * (n \div g), d |-> s * (d \div g)]

RInt(x) == [n |-> x, d |-> 1]

RAdd(a, b) ==
    LET g == GCD(a.d, b.d)
    IN  Rat(a.n * (b.d \div g) + b.n * (a.d \div g), (a.d \div g) * b.d)

\* cross-reduced product, so that intermediate values stay small
RMul(a, b) ==
    LET g1 == GCD(Abs(a.n), b.d)
        g2 == GCD(Abs(b.n), a.d)
        h1 == IF g1 = 0 THEN 1 ELSE g1
        h2 == IF g2 = 0 THEN 1 ELSE g2
    IN  Rat((a.n \div h1) * (b.n \div h2), (a.d \div h2) * (b.d \div h1))

RDiv(a, b) == RMul(a, Rat(b.d, b.n))

RLess(a, b) == a.n * b.d < b.n * a.d

RLeq(a, b) == a.n * b.d <= b.n * a.d

\* np.clip(x, lo, hi)
Clip(x, lo, hi) == IF RLess(x, lo) THEN lo ELSE IF RLess(hi, x) THEN hi ELSE x

\* np.round to an integer: round half to even
RoundHalfEven(x) ==
    LET f == x.n \div x.d
        r == 2 * (x.n - f * x.d)
    IN  IF r < x.d THEN f
        ELSE IF r > x.d THEN f + 1
        ELSE IF f % 2 = 0 THEN f ELSE f + 1

Unset == RInt(0)

(***************************************************************************)
(* HARMONIC_PROPS (lines 23-30).                                           *)
(***************************************************************************)
HARMONIC_PROPS ==
    << Rat(1, 1), Rat(5, 4), Rat(3, 2), Rat(9, 8), Rat(4, 3), Rat(8, 5) >>

(***************************************************************************)
(* analisis_espectral_mejorado (lines 34-57).                              *)
(***************************************************************************)
\* 100 * cos(2 pi m / n) and 100 * sin(2 pi m / n), row n, column m + 1
CosTab ==
    << <<100>>,
       <<100, -100>>,
       <<100, -50, -50>>,
       <<100, 0, -100, 0>>,
       <<100, 31, -81, -81, 31>>,
       <<100, 50, -50, -100, -50, 50>>,
       <<100, 62, -22, -90, -90, -22, 62>>,
       <<100, 71, 0, -71, -100, -71, 0, 71>>,
       <<100, 77, 17, -50, -94, -94, -50, 17, 77>> >>

SinTab ==
    << <<0>>,
       <<0, 0>>,
       <<0, 87, -87>>,
       <<0, 100, 0, -100>>,
       <<0, 95, 59, -59, -95>>,
       <<0, 87, 87, 0, -87, -87>>,
       <<0, 78, 97, 43, -43, -97, -78>>,
       <<0, 71, 100, 71, 0, -71, -100, -71>>,
       <<0, 64, 98, 87, 34, -34, -87, -98, -64>> >>

Cos100(m, n) == CosTab[n][(m % n) + 1]

Sin100(m, n) == SinTab[n][(m % n) + 1]

\* np.hanning(n)[j] * 200, j = 0..n-1: 0.5 - 0.5 cos(2 pi j / (n - 1));
\* np.hanning(1) = [1.0]
Hanning200(j, n) == IF n = 1 THEN 200 ELSE 100 - Cos100(j, n - 1)

\* serie * ventana (line 40), in 1/200 of a sample unit, index 1..n
Windowed(serie) ==
    [j \in 1..Len(serie) |-> serie[j] * Hanning200(j - 1, Len(serie))]

RECURSIVE SumTo(_, _)
SumTo(f, n) == IF n = 0 THEN 0 ELSE f[n] + SumTo(f, n - 1)

\* real and imaginary part of fft(x)[bin], in 1/200 of a sample unit
FftRe(x, bin) ==
    SumTo([j \in 1..Len(x) |-> x[j] * Cos100((j - 1) * bin, Len(x))], Len(x))
        \div 100

FftIm(x, bin) ==
    (0 - SumTo([j \in 1..Len(x) |-> x[j] * Sin100((j - 1) * bin, Len(x))],
               Len(x))) \div 100

\* espectro = np.abs(fft_vals[:n // 2]) ** 2 (line 43); entry b is bin b - 1
Espectro(serie) ==
    LET x == Windowed(serie)
    IN  [b \in 1..(Len(serie) \div 2) |->
            FftRe(x, b - 1) * FftRe(x, b - 1) + FftIm(x, b - 1) * FftIm(x, b - 1)]

\* variant: bin frequencies in hertz at the audio rate (d = 1 / SR)
FrecuenciaHz(bin, n) == Rat(bin * SR, n)

\* frecuencias = fftfreq(n, d=1)[:n // 2] (line 42): bin / n
Frecuencia(bin, n) == Rat(bin, n)

RECURSIVE MaxOf(_, _)
MaxOf(f, n) ==
    IF n = 1 THEN f[1]
    ELSE LET m == MaxOf(f, n - 1) IN IF f[n] > m THEN f[n] ELSE m

\* variant: a bin equal to the threshold counts as a peak (>= for >)
PicosGeq(esp) ==
    LET mx == MaxOf(esp, Len(esp))
    IN  {b \in 0..(Len(esp) - 1) : 20 * esp[b + 1] >= 3 * mx}

\* np.where(espectro > 0.15 * np.max(espectro))[0] (lines 46-47), as bins
Picos(esp) ==
    LET mx == MaxOf(esp, Len(esp))
    IN  {b \in 0..(Len(esp) - 1) : 20 * esp[b + 1] > 3 * mx}

\* the bin of lowest frequency among the peaks (line 54)
LowestBin(ps, n) ==
    CHOOSE b \in ps :
        \A c \in ps : RLeq(Frecuencia(b, n), Frecuencia(c, n))

\* the value returned at line 51 or line 57, given the peaks
FrecuenciaBase(ps, n) ==
    IF ps = {} THEN RInt(440)
    ELSE LET f == Frecuencia(LowestBin(ps, n), n)
         IN  Clip(Rat(Abs(f.n), f.d), RInt(80), RInt(2000))

(***************************************************************************)
(* Percentage changes (lines 91-93).  A change is [inf, v]: inf = 0 and v  *)
(* the finite value, or inf = 1 / -1 for +infinity / -infinity.            *)
(***************************************************************************)
Fin(r) == [inf |-> 0, v |-> r]

Inf(s) == [inf |-> s, v |-> RInt(0)]

IsFinite(c) == c.inf = 0

\* replace([inf, -inf], nan) acts on the samples, which are finite here, so
\* it changes nothing; then Series.pct_change() and fillna(0): element 1 has
\* no predecessor (NaN), 0/0 is NaN, x/0 is +-infinity; fillna replaces the
\* NaN only
PctChange(serie) ==
    [i \in 1..Len(serie) |->
        IF i = 1 THEN Fin(RInt(0))
        ELSE IF serie[i - 1] = 0
             THEN IF serie[i] = 0 THEN Fin(RInt(0))
                  ELSE Inf(IF serie[i] > 0 THEN 1 ELSE -1)
             ELSE Fin(Rat(serie[i] - serie[i - 1], serie[i - 1]))]

(***************************************************************************)
(* normalizar_cambios (lines 60-72).                                       *)
(***************************************************************************)
\* 100 * exp(-(j / 1.5)^2 / 2) for offsets j = -2..2 (window=5, std=1.5)
GaussianWeights == << 41, 80, 100, 80, 41 >>

\* positions of the centred window of i that hold a finite value (pandas
\* rolling turns infinities into NaN and skips NaN)
WindowOf(pct, i) ==
    {j \in 1..Len(pct) : Abs(j - i) <= 2 /\ IsFinite(pct[j])}

RECURSIVE WSum(_, _, _)
WSum(pct, i, js) ==
    IF js = {} THEN RInt(0)
    ELSE LET j == CHOOSE x \in js : TRUE
         IN  RAdd(RMul(RInt(GaussianWeights[j - i + 3]), pct[j].v),
                  WSum(pct, i, js \ {j}))

RECURSIVE WTot(_, _)
WTot(i, js) ==
    IF js = {} THEN 0
    ELSE LET j == CHOOSE x \in js : TRUE
         IN  GaussianWeights[j - i + 3] + WTot(i, js \ {j})

\* rolling(window=5, min_periods=1, center=True, win_type='gaussian')
\*   .mean(std=1.5).fillna(0)
Suavizado(pct, i) ==
    LET js == WindowOf(pct, i)
    IN  IF js = {} THEN RInt(0)
        ELSE RDiv(WSum(pct, i, js), RInt(WTot(i, js)))

\* variant: the smoothed value is rescaled without being clamped
EscaladoSinClip(s) == s

\* np.clip(suavizado, -0.08, 0.12) (line 71)
Escalado(s) == Clip(s, Rat(-8, 100), Rat(12, 100))

\* (escalado + 0.08) / 0.2 (line 72)
Reescalar(e) == RDiv(RAdd(e, Rat(8, 100)), Rat(2, 10))

NormalizarCambios(pct) ==
    [i \in 1..Len(pct) |-> Reescalar(Escalado(Suavizado(pct, i)))]

(***************************************************************************)
(* Frequencies (lines 103-106), in hundredths of a hertz.                  *)
(***************************************************************************)
\* variant: the table is indexed one position late
PropOneBased(i) == HARMONIC_PROPS[((i + 1) % Len(HARMONIC_PROPS)) + 1]

\* HARMONIC_PROPS[i % len(HARMONIC_PROPS)] for the 0-based index i
Prop(i) == HARMONIC_PROPS[(i % Len(HARMONIC_PROPS)) + 1]

\* frecuencia_base * props * (0.6 + 0.4 * normalized), before the clip
HzRaw(fb, i, m) ==
    RMul(RMul(fb, Prop(i)), RAdd(Rat(6, 10), RMul(Rat(4, 10), m)))

\* np.clip(hz_values, 20, 5000).round(2)
HzValue(fb, i, m) ==
    RoundHalfEven(RMul(RInt(100), Clip(HzRaw(fb, i, m), RInt(20), RInt(5000))))

HzValues(fb, norm) ==
    [i \in 1..Len(norm) |-> HzValue(fb, i - 1, norm[i])]

(***************************************************************************)
(* Notes (lines 112-114).                                                  *)
(***************************************************************************)
\* ceil(100 * 440 * 2^((m - 69) / 12)) for m = 21..108: the lowest
\* frequency (hundredths of a hertz) whose MIDI number is at least m
MidiHzTab ==
    << 2750, 2914, 3087, 3271, 3465, 3671, 3890, 4121,
       4366, 4625, 4900, 5192, 5500, 5828, 6174, 6541,
       6930, 7342, 7779, 8241, 8731, 9250, 9800, 10383,
       11000, 11655, 12348, 13082, 13860, 14684, 15557, 16482,
       17462, 18500, 19600, 20766, 22000, 23309, 24695, 26163,
       27719, 29367, 31113, 32963, 34923, 37000, 39200, 41531,
       44000, 46617, 49389, 52326, 55437, 58733, 62226, 65926,
       69846, 73999, 78400, 83061, 88000, 93233, 98777, 104651,
       110874, 117466, 124451, 131852, 139692, 147998, 156799, 166122,
       176000, 186466, 197554, 209301, 221747, 234932, 248902, 263703,
       279383, 295996, 313597, 332244, 352000, 372932, 395107, 418601 >>

\* int(np.clip(lr.hz_to_midi(hz), *RANGO_MIDI))
MidiClip(hz) ==
    LET ms == {m \in RANGO_MIDI[1]..RANGO_MIDI[2] :
                  MidiHzTab[m - RANGO_MIDI[1] + 1] <= hz}
    IN  IF ms = {} THEN RANGO_MIDI[1]
        ELSE CHOOSE m \in ms : \A x \in ms : x <= m

NoteNames ==
    << "C", "C#", "D", "D#", "E", "F", "F#", "G", "G#", "A", "A#", "B" >>

\* lr.midi_to_note(midi): pitch class and octave
MidiToNote(m) == [nombre |-> NoteNames[(m % 12) + 1], octava |-> (m \div 12) - 1]

\* the fallback appended at line 117
A4 == [nombre |-> "A", octava |-> 4]

(***************************************************************************)
(* Tones (line 136): lr.tone(frequency=hz, sr=SR, duration=DURACION_NOTA)  *)
(* is int(duration * sr) samples of a sinusoid at hz.                      *)
(***************************************************************************)
ToneLength == (SR * DURACION_NOTA_CENT) \div 100

\* variant: the tone includes its end point (one sample more)
ToneInclusive(hz) == [frequency |-> hz, samples |-> ToneLength + 1]

Tone(hz) == [frequency |-> hz, samples |-> ToneLength]

RECURSIVE TotalSamples(_)
TotalSamples(tones) ==
    IF tones = << >> THEN 0
    ELSE Head(tones).samples + TotalSamples(Tail(tones))

(***************************************************************************)
(* main(fecha) (lines 76-147), one action per stage; the two per-element   *)
(* loops advance one element per step.                                     *)
(***************************************************************************)
N == Len(value)

\* the except clause of main (lines 145-147): log and re-raise
Abort(donde) ==
    /\ pc' = "aborted"
    /\ fallo' = donde

\* lines 79-88: read the series; no valid sample is a ValueError
Load ==
    /\ pc = "load"
    /\ IF N = 0
       THEN Abort("serie vacia")
       ELSE pc' = "pct" /\ fallo' = fallo
    /\ UNCHANGED << value, pct_change, espectro, picos, frecuencia_base,
                    normalized, hz_values, notas, csv, audio, k, wav,
                    archivos, errores >>

\* lines 91-93
PctChangeStep ==
    /\ pc = "pct"
    /\ pct_change' = PctChange(value)
    /\ pc' = "analisis"
    /\ UNCHANGED << value, espectro, picos, frecuencia_base, normalized,
                    hz_values, notas, csv, audio, k, wav, archivos, errores,
                    fallo >>

\* line 96 with lines 34-57; np.max of an empty espectro raises ValueError
Analyze ==
    /\ pc = "analisis"
    /\ espectro' = Espectro(value)
    /\ IF Len(espectro') = 0
       THEN /\ Abort("np.max")
            /\ UNCHANGED << picos, frecuencia_base >>
       ELSE /\ picos' = Picos(espectro')
            /\ frecuencia_base' = FrecuenciaBase(picos', N)
            /\ pc' = "normalizar"
            /\ fallo' = fallo
    /\ UNCHANGED << value, pct_change, normalized, hz_values, notas, csv,
                    audio, k, wav, archivos, errores >>

\* line 100 with lines 60-72
Normalize ==
    /\ pc = "normalizar"
    /\ normalized' = NormalizarCambios(pct_change)
    /\ pc' = "frecuencias"
    /\ UNCHANGED << value, pct_change, espectro, picos, frecuencia_base,
                    hz_values, notas, csv, audio, k, wav, archivos, errores,
                    fallo >>

\* lines 103-106
Synthesize ==
    /\ pc = "frecuencias"
    /\ hz_values' = HzValues(frecuencia_base, normalized)
    /\ pc' = "notas"
    /\ UNCHANGED << value, pct_change, espectro, picos, frecuencia_base,
                    normalized, notas, csv, audio, k, wav, archivos, errores,
                    fallo >>

\* lines 110-117, one element: the conversion succeeds or raises
NoteStep ==
    /\ pc = "notas"
    /\ Len(notas) < N
    /\ \E ok \in BOOLEAN :
          LET i == Len(notas) + 1
          IN  /\ notas' = Append(notas,
                     IF ok THEN MidiToNote(MidiClip(hz_values[i])) ELSE A4)
              /\ errores' = IF ok THEN errores ELSE errores \cup {<< "midi", i >>}
    /\ pc' = IF Len(notas') = N THEN "csv" ELSE "notas"
    /\ UNCHANGED << value, pct_change, espectro, picos, frecuencia_base,
                    normalized, hz_values, csv, audio, k, wav, archivos, fallo >>

\* one row of df_output (lines 120-125), for the 1-based position i
Row(i) ==
    [tiempo |-> i - 1, pct_change |-> pct_change[i],
     frecuencia_hz |-> hz_values[i], nota |-> notas[i]]

\* lines 120-128: the table is written before the audio is generated
WriteCsv ==
    /\ pc = "csv"
    /\ csv' = [i \in 1..N |-> Row(i)]
    /\ archivos' = archivos \cup {"csv"}
    /\ k' = 0
    /\ pc' = "audio"
    /\ UNCHANGED << value, pct_change, espectro, picos, frecuencia_base,
                    normalized, hz_values, notas, audio, wav, errores, fallo >>

\* lines 132-139, one element: skipped below 20 Hz, else the tone is
\* appended or lr.tone raises and the error is logged
ToneStep ==
    /\ pc = "audio"
    /\ k < N
    /\ \E ok \in BOOLEAN :
          LET hz == hz_values[k + 1]
          IN  IF hz < 2000
              THEN UNCHANGED << audio, errores >>
              ELSE /\ audio' = IF ok THEN Append(audio, Tone(hz)) ELSE audio
                   /\ errores' = IF ok THEN errores
                                 ELSE errores \cup {<< "tono", k + 1 >>}
    /\ k' = k + 1
    /\ pc' = IF k' = N THEN "concat" ELSE "audio"
    /\ UNCHANGED << value, pct_change, espectro, picos, frecuencia_base,
                    normalized, hz_values, notas, csv, wav, archivos, fallo >>

\* lines 141-143: np.concatenate of an empty list raises ValueError
WriteWav ==
    /\ pc = "concat"
    /\ IF audio = << >>
       THEN /\ Abort("np.concatenate")
            /\ UNCHANGED << wav, archivos >>
       ELSE /\ wav' = audio
            /\ archivos' = archivos \cup {"wav"}
            /\ pc' = "done"
            /\ fallo' = fallo
    /\ UNCHANGED << value, pct_change, espectro, picos, frecuencia_base,
                    normalized, hz_values, notas, csv, audio, k, errores >>

InitWith(maxlen, vals) ==
    /\ value \in UNION {[1..n -> vals] : n \in 0..maxlen}
    /\ pc = "load"
    /\ pct_change = << >>
    /\ espectro = << >>
    /\ picos = {}
    /\ frecuencia_base = Unset
    /\ normalized = << >>
    /\ hz_values = << >>
    /\ notas = << >>
    /\ csv = << >>
    /\ audio = << >>
    /\ k = 0
    /\ wav = << >>
    /\ archivos = {}
    /\ errores = {}
    /\ fallo = ""

Init == InitWith(MaxLen, Values)

Next ==
    \/ Load
    \/ PctChangeStep
    \/ Analyze
    \/ Normalize
    \/ Synthesize
    \/ NoteStep
    \/ WriteCsv
    \/ ToneStep
    \/ WriteWav

Spec == Init /\ [][Next]_vars

\* the pipeline up to the frequency sequence, on longer series
InitFront == InitWith(MaxLongLen, Values)

NextFront ==
    \/ Load
    \/ PctChangeStep
    \/ Analyze
    \/ Normalize
    \/ Synthesize

SpecFront == InitFront /\ [][NextFront]_vars

\* the pipeline up to the spectral analysis, on series with negative samples
InitAnalisis == InitWith(MaxSignedLen, SignedValues)

NextAnalisis ==
    \/ Load
    \/ PctChangeStep
    \/ Analyze

SpecAnalisis == InitAnalisis /\ [][NextAnalisis]_vars

(***************************************************************************)
(* Properties.                                                             *)
(***************************************************************************)
\* the frequency stage has run
Synthesized == pc \in {"notas", "csv", "audio", "concat", "done"} \/ hz_values # << >>

\* the spectral analysis has returned a value (it raises for N = 1)
Analysed == espectro # << >>

HarmonicTable ==
    << Rat(1, 1), Rat(5, 4), Rat(3, 2), Rat(9, 8), Rat(4, 3), Rat(8, 5) >>

\* fundamental * HarmonicTable[i mod 6] * (0.6 + 0.4 * modulation[i]), in Hz,
\* clamped to [20, 5000], for the 0-based index i
ClampedHz(i) ==
    LET x == RMul(RMul(frecuencia_base, HarmonicTable[(i % 6) + 1]),
                  RDiv(RAdd(RInt(3), RMul(RInt(2), normalized[i + 1])), RInt(5)))
    IN  IF RLess(x, RInt(20)) THEN RInt(20)
        ELSE IF RLess(RInt(5000), x) THEN RInt(5000) ELSE x

\* C1: for every index i in 0..N-1 the frequency written for sample i is
\* clamp(fundamental * HarmonicTable[i mod 6] * (0.6 + 0.4 * modulation[i]),
\* 20, 5000) rounded to 2 decimals (it is a whole number of hundredths within
\* half a hundredth of the clamped value), hence it lies in [20, 5000].
C1_FrequencyFormula ==
    Synthesized =>
        /\ Len(hz_values) = N
        /\ \A i \in 0..(N - 1) :
              LET x == ClampedHz(i)
                  h == hz_values[i + 1]
              IN  /\ 2 * Abs(h * x.d - 100 * x.n) <= x.d
                  /\ 2000 <= h
                  /\ h <= 500000

\* C1 witness: a series of 7 samples whose seventh frequency (index 6, back
\* at the unison ratio) follows an in-band modulation value and is not a
\* whole number of hertz
C1_Witness ==
    /\ Synthesized
    /\ N >= 7
    /\ normalized[7] \notin {RInt(0), Rat(2, 5), RInt(1)}
    /\ hz_values[7] % 100 # 0

\* every change of the series is finite
FiniteChanges == \A i \in 1..Len(pct_change) : IsFinite(pct_change[i])

\* the changes within two positions of i are all zero
ZeroRun(i) ==
    \A j \in 1..Len(pct_change) :
        Abs(j - i) <= 2 => pct_change[j] = Fin(RInt(0))

\* C9: for a finite change series every modulation value lies in [0, 1],
\* and where the changes around a position are all zero the value is 0.4.
C9_ModulationInUnitInterval ==
    (normalized # << >> /\ FiniteChanges) =>
        /\ Len(normalized) = N
        /\ \A i \in 1..N :
              /\ RLeq(RInt(0), normalized[i])
              /\ RLeq(normalized[i], RInt(1))
              /\ ZeroRun(i) => normalized[i] = Rat(2, 5)

\* C9 witness: a finite change series whose modulation takes the value 0
\* (clamped below), the value 1 (clamped above), 0.4 on a run of zero change,
\* and a value strictly inside the band
C9_Witness ==
    /\ normalized # << >>
    /\ FiniteChanges
    /\ \E i \in 1..N : normalized[i] = RInt(0)
    /\ \E i \in 1..N : normalized[i] = RInt(1)
    /\ \E i \in 1..N : ZeroRun(i) /\ normalized[i] = Rat(2, 5)
    /\ \E i \in 1..N : normalized[i] \notin {RInt(0), Rat(2, 5), RInt(1)}

\* no power-spectrum bin strictly exceeds 0.15 * the maximum power
NoBinAboveThreshold ==
    \A b \in 1..Len(espectro) :
        ~(20 * espectro[b] > 3 * MaxOf(espectro, Len(espectro)))

\* C10: for every series of length N >= 2 the analyzer returns exactly 80 or
\* exactly 440; every peak's frequency is below 0.5, and 440 is returned
\* exactly when no bin strictly exceeds 0.15 * the maximum power.
C10_EightyOrDefault ==
    (Analysed /\ N >= 2) =>
        /\ frecuencia_base \in {RInt(80), RInt(440)}
        /\ \A b \in picos : b < Len(espectro) /\ RLess(Frecuencia(b, N), Rat(1, 2))
        /\ frecuencia_base = RInt(440) <=> NoBinAboveThreshold

\* C10 witness: a series whose lowest peak is not the zero-frequency bin, and
\* the analyzer returned 80
C10_Witness ==
    /\ Analysed
    /\ picos # {}
    /\ 0 \notin picos
    /\ frecuencia_base = RInt(80)

\* all samples of the series are equal
ConstantSeries == \A i \in 1..N : value[i] = value[1]

\* C2 as stated: for a constant series of length >= 2 the analyzer finds no
\* bin above 15% of the peak power and returns the default 440.
C2_ConstantGivesDefault ==
    (Analysed /\ N >= 2 /\ ConstantSeries) =>
        /\ picos = {}
        /\ frecuencia_base = RInt(440)

\* C2 amended: for a constant series of length >= 2 the analyzer returns 440
\* exactly when the windowed series is all zero (the constant is 0, or N = 2,
\* where the Hann window is [0, 0]); for a nonzero constant and N >= 3 the
\* zero-frequency bin exceeds the threshold and 80 is returned.
C2_ConstantAmended ==
    (Analysed /\ N >= 2 /\ ConstantSeries) =>
        IF value[1] = 0 \/ N = 2
        THEN picos = {} /\ frecuencia_base = RInt(440)
        ELSE 0 \in picos /\ frecuencia_base = RInt(80)

\* C2 witness: a nonzero constant series of length >= 3, analysed
C2_Witness ==
    /\ Analysed
    /\ N >= 3
    /\ ConstantSeries
    /\ value[1] # 0
    /\ frecuencia_base = RInt(80)

\* the run has ended, normally or by the exception re-raised at line 147
Ended == pc \in {"done", "aborted"}

\* C3 as stated: for every series of length N >= 1 the run produces a
\* frequency sequence of length N, a pitch sequence of length N and a table
\* of exactly N rows.
C3_LengthsForEverySeries ==
    (Ended /\ N >= 1) =>
        /\ Len(hz_values) = N
        /\ Len(notas) = N
        /\ "csv" \in archivos
        /\ Len(csv) = N

\* positions whose frequency is at least 20 Hz
Audible == {i \in 1..N : hz_values[i] >= 2000}

\* positions whose tone was synthesized: audible, and lr.tone did not raise
Rendered == {i \in Audible : << "tono", i >> \notin errores}

\* the j-th smallest position of the set s
Nth(s, j) == CHOOSE i \in s : Cardinality({x \in s : x <= i}) = j

\* samples of one tone: int(DURACION_NOTA * SR)
SamplesPerTone == (SR * DURACION_NOTA_CENT) \div 100

\* C4 as stated: the waveform holds exactly one fixed-length tone per
\* frequency entry >= 20 Hz, so its sample count is
\* (samples per tone) * count(entries >= 20 Hz).
C4_OneTonePerAudibleEntry ==
    pc = "done" =>
        /\ Len(wav) = Cardinality(Audible)
        /\ TotalSamples(wav) = SamplesPerTone * Cardinality(Audible)

\* C4 amended: the waveform is the in-order concatenation of one
\* fixed-length tone per frequency entry >= 20 Hz whose synthesis did not
\* fail; its sample count is (samples per tone) * the number of those
\* entries, and the table still has a row for every entry.
C4_OneTonePerRenderedEntry ==
    pc = "done" =>
        /\ Len(wav) = Cardinality(Rendered)
        /\ \A j \in 1..Len(wav) :
              /\ wav[j].frequency = hz_values[Nth(Rendered, j)]
              /\ wav[j].samples = SamplesPerTone
        /\ TotalSamples(wav) = SamplesPerTone * Cardinality(Rendered)
        /\ Len(csv) = N

\* C4 witness: a completed run in which one tone failed between two tones
\* that were rendered
C4_Witness ==
    /\ pc = "done"
    /\ \E i \in 2..(N - 1) :
          /\ i \in Audible \ Rendered
          /\ i - 1 \in Rendered
          /\ i + 1 \in Rendered

\* C5 as stated: a series of a single sample does not raise in the spectral
\* analyzer.
C5_SingleSampleDoesNotRaise ==
    N = 1 => fallo # "np.max"

\* C6 as stated: the change series contains only finite values, element 0
\* is 0, in the series handed to the normalizer and in the table.
C6_ChangesFinite ==
    /\ pct_change # << >> =>
          /\ pct_change[1] = Fin(RInt(0))
          /\ \A i \in 1..Len(pct_change) : IsFinite(pct_change[i])
    /\ \A i \in 1..Len(csv) : IsFinite(csv[i].pct_change)

\* C7 as stated: a run in which element conversions or tone syntheses
\* failed, whatever their number, still completes.
C7_ElementFailuresNeverAbort ==
    errores # {} => pc # "aborted"

\* C8 as stated: a run that aborts has written no output.
C8_NoOutputWhenAborted ==
    pc = "aborted" => archivos = {}

====
